---- MODULE Spec2Model ----
(***************************************************************************)
(* Credential provider (ImsHelper, getImsToken) of the RAG API test        *)
(* harness: token resolution, cache-then-fetch OAuth flow, validity check. *)
(*                                                                         *)
(* Time is in milliseconds, counted from an origin a little before the     *)
(* start of the run (Now0 ms before the first call); every duration of the *)
(* code keeps its value.                                                   *)
(***************************************************************************)
EXTENDS Integers, Sequences, FiniteSets, TLC

(* ----------------------------- bounds --------------------------------- *)
NumProcs == 2
MaxCalls == 2
MaxTicks == 1
NumQueries == 2

(* -------------------------- JavaScript values -------------------------- *)
\* a JS string is a sequence of one-character strings; undefined is its own kind
Str(s) == [kind |-> "string", val |-> s]
Undef == [kind |-> "undefined", val |-> <<>>]
\* JS truthiness of a string-or-undefined value: '' and undefined are falsy
Truthy(v) == v.kind = "string" /\ v.val # <<>>
\* an absent numeric field of a JSON object
Undefined == -1
\* JS truthiness of a number-or-undefined field: undefined and 0 are falsy
TruthyNum(n) == n # Undefined /\ n # 0

Whitespace == {" ", "\n", "\t"}

RECURSIVE TrimStart(_)
TrimStart(s) == IF s # <<>> /\ Head(s) \in Whitespace THEN TrimStart(Tail(s)) ELSE s

RECURSIVE TrimEnd(_)
TrimEnd(s) ==
  IF s # <<>> /\ s[Len(s)] \in Whitespace THEN TrimEnd(SubSeq(s, 1, Len(s) - 1)) ELSE s

\* String.prototype.trim
Trim(s) == TrimEnd(TrimStart(s))

(* ------------------------------ time ----------------------------------- *)
Now0 == 1000000
Hour == 60 * 60 * 1000
maxValidDuration == 48 * 60 * 60 * 1000
bufferSeconds == 300
defaultExpiresIn == 86400
TickDeltas == {1, Hour}

(* --------------------------- cache file -------------------------------- *)
\* content of a cache file: no file, a file that cannot be read, text that
\* is not JSON, the JSON text null, or a JSON object
NoFile == [kind |-> "absent", access_token |-> Undef, expires_in |-> Undefined, expires_at |-> Undefined]
Unreadable == [kind |-> "unreadable", access_token |-> Undef, expires_in |-> Undefined, expires_at |-> Undefined]
Garbage == [kind |-> "garbage", access_token |-> Undef, expires_in |-> Undefined, expires_at |-> Undefined]
Null == [kind |-> "null", access_token |-> Undef, expires_in |-> Undefined, expires_at |-> Undefined]
Record(tok, ein, eat) == [kind |-> "record", access_token |-> tok, expires_in |-> ein, expires_at |-> eat]

OldToken == Str(<<"o", "l", "d">>)

InitialExpiresAt ==
  {Undefined, 0, Now0 - 1, Now0, Now0 + 1, Now0 + 47 * Hour,
   Now0 + maxValidDuration, Now0 + maxValidDuration + 1, Now0 + 49 * Hour}

InitialCache ==
  {NoFile, Unreadable, Garbage, Null, Record(Undef, 3600, Now0 + 1)}
    \cup {Record(OldToken, 3600, e) : e \in InitialExpiresAt}

(* ---------------------------- environment ------------------------------ *)
Procs == 1 .. NumProcs

OverrideToken == Str(<<"o", "v">>)
Set == Str(<<"1">>)
ImsTokenValues == {Undef, OverrideToken}
FlagValues == {Undef, Set}
\* IMS_CLIENT_ID / IMS_CLIENT_SECRET after the constructor's || ''
CredentialValues == {Str(<<>>), Set}
CacheEnvValues == {Undef, Str(<<"c", "i">>)}

\* mutant: the partition label left out of the file name
environmentIgnored(cacheEnvValue) == <<"l", "o", "c", "a", "l">>

\* constructor: process.env.CACHE_ENV || 'local'
environment(cacheEnvValue) ==
  IF Truthy(cacheEnvValue) THEN cacheEnvValue.val ELSE <<"l", "o", "c", "a", "l">>

\* constructor: the cache file path of a helper (relative to process.cwd())
cacheFilePath(variant, cacheEnvValue) ==
  IF variant = "utils"
    THEN <<".ims-token-">> \o environment(cacheEnvValue) \o <<"-cache.json">>
    ELSE <<".ims-token-cache.json">>

Variants == {"utils", "legacy"}
Paths == {cacheFilePath(v, c) : v \in Variants, c \in CacheEnvValues}

(* ------------------------------ issuer --------------------------------- *)
Digit(n) == CASE n = 0 -> "0" [] n = 1 -> "1" [] n = 2 -> "2" [] n = 3 -> "3"
              [] n = 4 -> "4" [] n = 5 -> "5" [] n = 6 -> "6" [] n = 7 -> "7"
              [] n = 8 -> "8" [] OTHER -> "9"
\* the n-th access token the issuer hands out
IssuedToken(n) == Str(<<"i", "m", "s", Digit(n)>>)

ExpiresInValues == {Undefined, 0, 3600}
ErrorDescriptions == {Undef, Str(<<>>), Str(<<"b", "a", "d">>)}

\* what comes back from the POST to the token endpoint
Response(net, ok, json, hasToken, ein, desc, compact) ==
  [net |-> net, ok |-> ok, json |-> json, hasToken |-> hasToken,
   expires_in |-> ein, error_description |-> desc, compact |-> compact]

Responses ==
  {Response("failed", FALSE, "invalid", FALSE, Undefined, Undef, FALSE)}
    \cup {Response("answered", ok, "invalid", FALSE, Undefined, Undef, FALSE) :
            ok \in BOOLEAN}
    \cup {Response("answered", TRUE, "null", FALSE, Undefined, Undef, FALSE)}
    \cup {Response("answered", FALSE, "object", FALSE, Undefined, d, TRUE) :
            d \in ErrorDescriptions}
    \cup {Response("answered", FALSE, "object", FALSE, Undefined, Undef, FALSE)}
    \cup {Response("answered", TRUE, "object", t, e, Undef, TRUE) :
            t \in BOOLEAN, e \in ExpiresInValues}

(* --------------------------- login command ----------------------------- *)
CliOutputs ==
  {<<>>, <<" ", "\n">>, <<"c", "l", "i", "\n">>, <<"\t", "c", " ", "l", "\n">>}
\* a run of the login command: it fails, or exits 0 having printed out
CliRuns ==
  {[ok |-> FALSE, out |-> <<>>]} \cup {[ok |-> TRUE, out |-> o] : o \in CliOutputs}

(* ------------------------------ state ---------------------------------- *)
VARIABLES
  now,       \* Date.now()
  ticks,     \* number of clock advances so far
  env,       \* process.env: IMS_TOKEN, GITHUB_ACTIONS, CI, IMS_CLIENT_ID, IMS_CLIENT_SECRET
  cacheEnv,  \* process.env.CACHE_ENV of each process
  helper,    \* which ImsHelper module each process imports
  files,     \* the cache files on disk, by path
  issued,    \* number of access tokens the issuer has handed out
  pc,        \* where each process is: idle, awaiting the token endpoint, returned, threw
  entry,     \* the function of the call in progress (or last completed)
  calls,     \* number of calls each process has started
  ret,       \* value returned by the last call
  err,       \* error thrown by the last call: its kind and the detail it carries
  log,       \* the I/O the call has done, in order
  obs,       \* what the call has seen and computed
  lastWriter, \* the process whose write to each cache file completed last, 0 if none
  apimEndpoint,  \* process.env.APIM_ENDPOINT
  suite,     \* the (query, options) arguments the callers of makeQuery pass
  server,    \* the answers the query endpoint gives in this run
  qpc,       \* where each makeQuery call is: idle, awaiting its response, returned, threw
  qargs,     \* the arguments of each makeQuery call
  qreq,      \* the request each call has passed to fetch: its place on the wire, 0 if none
  wire,      \* the requests fetch has sent, in order, each with the server's answer
  qret,      \* the {response, data} pair a call returned
  qerr,      \* the error a call threw
  qlog       \* what the call has done with the response, in order

pvars == <<now, ticks, env, cacheEnv, helper, files, issued, pc, entry, calls, ret, err, log, obs,
           lastWriter>>
qvars == <<apimEndpoint, suite, server, qpc, qargs, qreq, wire, qret, qerr, qlog>>
vars == <<now, ticks, env, cacheEnv, helper, files, issued, pc, entry, calls, ret, err, log, obs,
          lastWriter,
          apimEndpoint, suite, server, qpc, qargs, qreq, wire, qret, qerr, qlog>>

NoError == [kind |-> "none", detail |-> "none"]
Error(kind, detail) == [kind |-> kind, detail |-> detail]

NoObs ==
  [file |-> NoFile, loaded |-> Null, validChecked |-> FALSE, validAt |-> 0, validResult |-> FALSE,
   response |-> Response("none", FALSE, "invalid", FALSE, Undefined, Undef, FALSE),
   bodyToken |-> Undef, fetchNow |-> 0, saved |-> NoFile, writeOk |-> FALSE, cli |-> [ok |-> FALSE, out |-> <<>>]]

(* ------------------------- ImsHelper, pure parts ------------------------ *)
\* mutant: a record is still accepted at the instant it expires
isTokenValidUtilsInclusive(tokenData, t) ==
  IF tokenData = Null \/ ~TruthyNum(tokenData.expires_at) THEN FALSE
  ELSE IF tokenData.expires_at < t THEN FALSE
  ELSE IF tokenData.expires_at - t > maxValidDuration THEN FALSE
  ELSE TRUE

\* utils/imsHelper.js, utils/imsHelper.ts
isTokenValidUtils(tokenData, t) ==
  IF tokenData = Null \/ ~TruthyNum(tokenData.expires_at) THEN FALSE
  ELSE IF tokenData.expires_at <= t THEN FALSE
  ELSE IF tokenData.expires_at - t > maxValidDuration THEN FALSE
  ELSE TRUE

\* the CI-only ImsHelper (no ceiling on the remaining time)
isTokenValidLegacy(tokenData, t) ==
  IF tokenData = Null \/ ~TruthyNum(tokenData.expires_at) THEN FALSE
  ELSE t < tokenData.expires_at

isTokenValid(variant, tokenData, t) ==
  IF variant = "utils" THEN isTokenValidUtils(tokenData, t)
  ELSE isTokenValidLegacy(tokenData, t)

\* mutant: the cache file is never read back
loadCachedTokenNever(content) == Null

\* what loadCachedToken returns for a file content: the parsed JSON, or null
\* when there is no file or reading / parsing throws
loadCachedToken(content) ==
  IF content.kind = "record" THEN content ELSE Null

\* mutant: the read and the parse outside the try block
loadThrowsUncaught(content) == content.kind \in {"unreadable", "garbage"}

\* loadCachedToken: whether an error escapes it (its try / catch swallows
\* every read and parse failure)
loadThrows(content) == FALSE

\* saveCachedToken: whether an error escapes it when the write fails
saveThrows(writeOk) == FALSE

\* the file system calls loadCachedToken makes
loadEvents(content) ==
  IF content.kind = "absent" THEN <<"existsSync">> ELSE <<"existsSync", "readFile">>

\* mutant: the validity test inverted
cacheHitInverted(variant, cachedToken, t) ==
  cachedToken # Null /\ ~isTokenValid(variant, cachedToken, t)

\* mutant: the cache is never trusted
cacheHitNever(variant, cachedToken, t) == FALSE

\* mutant: any record in the file is served
cacheHitAnyRecord(variant, cachedToken, t) == cachedToken # Null

\* getOAuthToken: cachedToken && this.isTokenValid(cachedToken)
cacheHit(variant, cachedToken, t) ==
  cachedToken # Null /\ isTokenValid(variant, cachedToken, t)

\* mutant: the check passes as soon as one of the two is configured
credentialsMissingBoth(e) ==
  ~Truthy(e.IMS_CLIENT_ID) /\ ~Truthy(e.IMS_CLIENT_SECRET)

\* fetchNewToken: !this.oauthClientId || !this.oauthClientSecret
credentialsMissing(e) ==
  ~Truthy(e.IMS_CLIENT_ID) \/ ~Truthy(e.IMS_CLIENT_SECRET)

\* fetchNewToken: data.expires_in || 86400
expiresIn(ein) == IF TruthyNum(ein) THEN ein ELSE defaultExpiresIn

\* mutant: the safety buffer forgotten
expiresAtNoBuffer(ein, t) == t + (expiresIn(ein) * 1000)

\* fetchNewToken: Date.now() + ((expiresIn - 300) * 1000)
expiresAt(ein, t) == t + ((expiresIn(ein) - bufferSeconds) * 1000)

\* fetchNewToken: the detail of the error thrown for a non-ok response
\* whose body parsed: errorData.error_description || JSON.stringify(errorData)
errorDetail(r) ==
  IF Truthy(r.error_description) THEN "error_description"
  ELSE IF r.compact THEN "raw_body" ELSE "reserialized_body"

\* mutant: response.ok not consulted
fetchErrorOkUnchecked(r) ==
  IF r.net = "failed" THEN Error("TransportError", "none")
  ELSE IF r.json = "invalid" THEN Error("ParseError", "parser_message")
  ELSE IF r.json = "null" THEN Error("TypeError", "none")
  ELSE NoError

\* fetchNewToken: the error it throws for a response, NoError when it returns
fetchError(r) ==
  IF r.net = "failed" THEN Error("TransportError", "none")
  ELSE IF r.json = "invalid" THEN Error("ParseError", "parser_message")
  ELSE IF r.json = "null" THEN Error("TypeError", "none")
  ELSE IF ~r.ok THEN Error("AuthFetchError", errorDetail(r))
  ELSE NoError

\* fetchNewToken: the token data it returns for a success response received
\* when the issuer has handed out n tokens before
tokenData(r, n, t) ==
  Record(IF r.hasToken THEN IssuedToken(n + 1) ELSE Undef, r.expires_in,
         expiresAt(r.expires_in, t))

\* getLocalToken: the error it throws for a run of the login command
localTokenError(cli) ==
  IF ~cli.ok THEN Error("LoginError", "command_failed")
  ELSE IF Trim(cli.out) = <<>> THEN Error("LoginError", "empty_token")
  ELSE NoError

\* getImsToken, local branch: only a failing command throws
e2eLocalError(cli) ==
  IF ~cli.ok THEN Error("LoginError", "command_failed") ELSE NoError

\* mutant: only one of the two indicators consulted
isCIGithubOnly(e) == Truthy(e.GITHUB_ACTIONS)

\* getToken: process.env.GITHUB_ACTIONS || process.env.CI
isCI(e) == Truthy(e.GITHUB_ACTIONS) \/ Truthy(e.CI)

\* getImsToken: process.env.GITHUB_ACTIONS
e2eIsCI(e) == Truthy(e.GITHUB_ACTIONS)

(* ----------------------- makeQuery, pure parts -------------------------- *)
Calls == 1 .. NumQueries
\* JS null
NullV == [kind |-> "null", val |-> <<>>]

\* a headers object: the value of each property, Undef where it has none
HeaderNames == {"Content-Type", "Authorization", "X-Request-Id"}
NoHeaders == [h \in HeaderNames |-> Undef]
ApplicationJson ==
  Str(<<"a", "p", "p", "l", "i", "c", "a", "t", "i", "o", "n", "/", "j", "s", "o", "n">>)
BearerPrefix == <<"B", "e", "a", "r", "e", "r", " ">>
QueryPath == <<"/", "a", "p", "i", "/", "q", "u", "e", "r", "y">>
defaultCount == 3

\* the option values callers pass
EndpointValues == {Undef, Str(<<>>), Str(<<"h">>)}
QueryValues == {Str(<<>>), Str(<<"q">>)}
TokenValues == {Undef, NullV, Str(<<"t">>)}
AuthHeaderValues == {Undef, NullV, Str(<<>>), Str(<<"X">>)}
CountValues == {Undefined, 1}
IndexNameValues == {Undef, Str(<<"i">>)}
CustomHeaderSets ==
  {NoHeaders,
   [NoHeaders EXCEPT !["X-Request-Id"] = Str(<<"7">>)],
   [NoHeaders EXCEPT !["Authorization"] = Str(<<"c">>)]}
OptionSets ==
  [token : TokenValues, authHeader : AuthHeaderValues, count : CountValues,
   indexName : IndexNameValues, customHeaders : CustomHeaderSets]
QueryCalls == [query : QueryValues, options : OptionSets]
\* the calls made together: with a token, with an override, with custom
\* headers and another count, with nothing
ConcurrentCalls ==
  {[query |-> Str(<<"q">>),
    options |-> [token |-> Str(<<"t">>), authHeader |-> Undef, count |-> 1,
                 indexName |-> Undef, customHeaders |-> NoHeaders]],
   [query |-> Str(<<"q">>),
    options |-> [token |-> Undef, authHeader |-> Str(<<"X">>), count |-> Undefined,
                 indexName |-> Str(<<"i">>),
                 customHeaders |-> [NoHeaders EXCEPT !["X-Request-Id"] = Str(<<"7">>)]]],
   [query |-> Str(<<>>),
    options |-> [token |-> Undef, authHeader |-> Undef, count |-> Undefined,
                 indexName |-> Undef, customHeaders |-> NoHeaders]]}
NoArgs ==
  [query |-> Undef,
   options |-> [token |-> Undef, authHeader |-> Undef, count |-> Undefined,
                indexName |-> Undef, customHeaders |-> NoHeaders]]

\* what the server does with a request: the transport fails, or it answers
\* with a status and a body text
NoAnswer == [net |-> "none", status |-> 0, text |-> <<>>]
Answer(net, status, text) == [net |-> net, status |-> status, text |-> text]
Statuses == {200, 401, 403, 429, 500}
BodyTexts ==
  {<<>>, <<" ", "\n">>, <<"{", "}">>, <<"\n", "{", "}", " ">>, <<"<", "h", ">">>}
Answers ==
  {Answer("failed", 0, <<>>)} \cup {Answer("answered", s, t) : s \in Statuses, t \in BodyTexts}
\* the answers of the rate-limited endpoint: served, refused with an empty
\* body, or the connection dropped
RateLimitedAnswers ==
  {Answer("answered", 200, <<"{", "}">>), Answer("answered", 429, <<>>),
   Answer("failed", 0, <<>>)}

\* the data member of the returned pair
NoData == [kind |-> "none", error |-> "", message |-> "", json |-> <<>>]
NoResult == [response |-> NoAnswer, data |-> NoData]

\* a destructuring default applies to undefined only
withDefault(v, d) == IF v = Undef THEN d ELSE v

\* { 'Content-Type': 'application/json', ...customHeaders }
objectSpread(base, extra) ==
  [h \in HeaderNames |-> IF extra[h] # Undef THEN extra[h] ELSE base[h]]

\* mutant: the token consulted before the override
makeHeadersTokenFirst(options) ==
  LET token == withDefault(options.token, NullV)
      authHeader == withDefault(options.authHeader, NullV)
      headers == objectSpread([NoHeaders EXCEPT !["Content-Type"] = ApplicationJson],
                              options.customHeaders)
  IN IF token # NullV
       THEN [headers EXCEPT !["Authorization"] = Str(BearerPrefix \o token.val)]
     ELSE IF authHeader # NullV
       THEN [headers EXCEPT !["Authorization"] = authHeader]
     ELSE headers

\* mutant: a Bearer header is always attached when there is no override
makeHeadersAlwaysBearer(options) ==
  LET token == withDefault(options.token, NullV)
      authHeader == withDefault(options.authHeader, NullV)
      headers == objectSpread([NoHeaders EXCEPT !["Content-Type"] = ApplicationJson],
                              options.customHeaders)
  IN IF authHeader # NullV
       THEN [headers EXCEPT !["Authorization"] = authHeader]
     ELSE [headers EXCEPT !["Authorization"] = Str(BearerPrefix \o token.val)]

\* mutant: the override tested for truthiness instead of against null
makeHeadersTruthyOverride(options) ==
  LET token == withDefault(options.token, NullV)
      authHeader == withDefault(options.authHeader, NullV)
      headers == objectSpread([NoHeaders EXCEPT !["Content-Type"] = ApplicationJson],
                              options.customHeaders)
  IN IF Truthy(authHeader)
       THEN [headers EXCEPT !["Authorization"] = authHeader]
     ELSE IF token # NullV
       THEN [headers EXCEPT !["Authorization"] = Str(BearerPrefix \o token.val)]
     ELSE headers

\* makeQuery: the headers object passed to fetch
makeHeaders(options) ==
  LET token == withDefault(options.token, NullV)
      authHeader == withDefault(options.authHeader, NullV)
      headers == objectSpread([NoHeaders EXCEPT !["Content-Type"] = ApplicationJson],
                              options.customHeaders)
  IN IF authHeader # NullV
       THEN [headers EXCEPT !["Authorization"] = authHeader]
     ELSE IF token # NullV
       THEN [headers EXCEPT !["Authorization"] = Str(BearerPrefix \o token.val)]
     ELSE headers

\* mutant: the count option ignored
requestBodyFixedCount(query, options) ==
  [query |-> query, count |-> defaultCount, indexName |-> options.indexName]

\* makeQuery: JSON.stringify({ query, count, indexName }); an undefined
\* indexName is left out of the text
requestBody(query, options) ==
  [query |-> query,
   count |-> IF options.count = Undefined THEN defaultCount ELSE options.count,
   indexName |-> options.indexName]

\* makeQuery: the request passed to fetch by call c
Request(c, endpoint, args) ==
  [from |-> c, url |-> endpoint.val \o QueryPath, method |-> "POST",
   headers |-> makeHeaders(args.options),
   body |-> requestBody(args.query, args.options),
   answer |-> NoAnswer]

\* JSON.parse accepts a JSON text with whitespace around it
JsonTexts == {<<"{", "}">>}
isJson(text) == Trim(text) \in JsonTexts
jsonParse(text) == [kind |-> "parsed", error |-> "", message |-> "", json |-> Trim(text)]

\* mutant: only the empty string counts as an empty body
bodyIsEmptyUntrimmed(text) == text = <<>>

\* makeQuery: !responseText || responseText.trim() === ''
bodyIsEmpty(text) == text = <<>> \/ Trim(text) = <<>>

emptyResponseData ==
  [kind |-> "object", error |-> "empty_response",
   message |-> "Server returned empty response", json |-> <<>>]

\* makeQuery: data for a body text that did not make it throw
responseData(text) ==
  IF bodyIsEmpty(text) THEN emptyResponseData ELSE jsonParse(text)

\* mutant: a parse failure swallowed
responseErrorSwallowed(a) ==
  IF a.net = "failed" THEN Error("TransportError", "none") ELSE NoError

\* mutant: an error status thrown
responseErrorOnStatus(a) ==
  IF a.net = "failed" THEN Error("TransportError", "none")
  ELSE IF a.status >= 400 THEN Error("HttpError", "status")
  ELSE IF ~bodyIsEmpty(a.text) /\ ~isJson(a.text)
    THEN Error("InvalidResponseError", "parser_message")
  ELSE NoError

\* makeQuery: the error it throws for an answer, NoError when it returns
responseError(a) ==
  IF a.net = "failed" THEN Error("TransportError", "none")
  ELSE IF ~bodyIsEmpty(a.text) /\ ~isJson(a.text)
    THEN Error("InvalidResponseError", "parser_message")
  ELSE NoError

\* makeQuery: what it does with an answer, in order
responseEvents(a) ==
  IF a.net = "failed" THEN <<>>
  ELSE <<"text">> \o (IF bodyIsEmpty(a.text) THEN <<"warn">> ELSE <<"JSON.parse">>)

\* no makeQuery call is made
QueryOff ==
  /\ apimEndpoint = Undef
  /\ suite = {}
  /\ server = {}
  /\ qpc = [c \in Calls |-> "off"]
  /\ qargs = [c \in Calls |-> NoArgs]
  /\ qreq = [c \in Calls |-> 0]
  /\ wire = <<>>
  /\ qret = [c \in Calls |-> NoResult]
  /\ qerr = [c \in Calls |-> NoError]
  /\ qlog = [c \in Calls |-> <<>>]

(* ------------------------------ actions -------------------------------- *)
Init ==
  /\ now = Now0
  /\ ticks = 0
  /\ env \in [IMS_TOKEN : ImsTokenValues, GITHUB_ACTIONS : FlagValues, CI : FlagValues,
              IMS_CLIENT_ID : CredentialValues, IMS_CLIENT_SECRET : CredentialValues]
  /\ \E v \in Variants : helper = [p \in Procs |-> v]
  \* the CI-only helper does not read CACHE_ENV
  /\ \E c \in CacheEnvValues :
       /\ helper[1] = "legacy" => c = Undef
       /\ cacheEnv = [p \in Procs |-> c]
  /\ \E c \in InitialCache :
       files = [f \in Paths |-> IF f = cacheFilePath(helper[1], cacheEnv[1]) THEN c ELSE NoFile]
  /\ issued = 0
  /\ pc = [p \in Procs |-> IF p = 1 THEN "idle" ELSE "off"]
  /\ entry = [p \in Procs |-> "none"]
  /\ calls = [p \in Procs |-> 0]
  /\ ret = [p \in Procs |-> Undef]
  /\ err = [p \in Procs |-> NoError]
  /\ log = [p \in Procs |-> <<>>]
  /\ obs = [p \in Procs |-> NoObs]
  /\ lastWriter = [f \in Paths |-> 0]
  /\ QueryOff

\* a process starts a call of the function e
Begin(p, e) ==
  /\ pc[p] \in {"idle", "returned", "threw"}
  /\ calls[p] < MaxCalls
  /\ calls' = [calls EXCEPT ![p] = @ + 1]
  /\ entry' = [entry EXCEPT ![p] = e]

\* the call of p ends by returning v
Return(p, v, l, o) ==
  /\ pc' = [pc EXCEPT ![p] = "returned"]
  /\ ret' = [ret EXCEPT ![p] = v]
  /\ err' = [err EXCEPT ![p] = NoError]
  /\ log' = [log EXCEPT ![p] = l]
  /\ obs' = [obs EXCEPT ![p] = o]

\* the call of p ends by throwing e
Throw(p, e, l, o) ==
  /\ pc' = [pc EXCEPT ![p] = "threw"]
  /\ ret' = [ret EXCEPT ![p] = Undef]
  /\ err' = [err EXCEPT ![p] = e]
  /\ log' = [log EXCEPT ![p] = l]
  /\ obs' = [obs EXCEPT ![p] = o]

\* getOAuthToken up to its await: load the cache, return on a hit, otherwise
\* enter fetchNewToken, which throws without credentials or sends the POST
oauthStart(p, prefix) ==
  LET content == files[cacheFilePath(helper[p], cacheEnv[p])]
      cachedToken == loadCachedToken(content)
      l == prefix \o loadEvents(content)
      o == [NoObs EXCEPT !.file = content,
                         !.loaded = cachedToken,
                         !.validChecked = (cachedToken # Null),
                         !.validAt = now,
                         !.validResult = isTokenValid(helper[p], cachedToken, now)]
  IN IF loadThrows(content)
       THEN Throw(p, Error("CacheError", "read"), l, o)
     ELSE IF cacheHit(helper[p], cachedToken, now)
       THEN Return(p, cachedToken.access_token, l, o)
     ELSE IF credentialsMissing(env)
       THEN Throw(p, Error("ConfigError", "none"), l, o)
     ELSE /\ pc' = [pc EXCEPT ![p] = "awaiting"]
          /\ ret' = [ret EXCEPT ![p] = Undef]
          /\ err' = [err EXCEPT ![p] = NoError]
          /\ log' = [log EXCEPT ![p] = l \o <<"post">>]
          /\ obs' = [obs EXCEPT ![p] = o]

\* getLocalToken: run the login command
getLocalToken(p, prefix, cli) ==
  LET l == prefix \o <<"login">>
      o == [NoObs EXCEPT !.cli = cli]
  IN IF localTokenError(cli) # NoError
       THEN Throw(p, localTokenError(cli), l, o)
       ELSE Return(p, Str(Trim(cli.out)), l, o)

\* ImsHelper.getOAuthToken called directly
GetOAuthToken(p) ==
  /\ Begin(p, "getOAuthToken")
  /\ oauthStart(p, <<>>)
  /\ UNCHANGED <<now, ticks, env, cacheEnv, helper, files, issued, lastWriter>>
  /\ UNCHANGED qvars

\* ImsHelper.getToken (utils/imsHelper)
GetToken(p) ==
  /\ helper[p] = "utils"
  /\ Begin(p, "getToken")
  /\ IF isCI(env)
       THEN oauthStart(p, <<"detectCI">>)
       ELSE \E cli \in CliRuns : getLocalToken(p, <<"detectCI">>, cli)
  /\ UNCHANGED <<now, ticks, env, cacheEnv, helper, files, issued, lastWriter>>
  /\ UNCHANGED qvars

\* getImsToken of e2e/query.test.js
GetImsToken(p) ==
  /\ helper[p] = "utils"
  /\ Begin(p, "getImsToken")
  /\ IF Truthy(env.IMS_TOKEN)
       THEN Return(p, env.IMS_TOKEN, <<>>, NoObs)
     ELSE IF e2eIsCI(env)
       THEN oauthStart(p, <<"detectCI">>)
     ELSE \E cli \in CliRuns :
            LET l == <<"detectCI", "login">>
                o == [NoObs EXCEPT !.cli = cli]
            IN IF e2eLocalError(cli) # NoError
                 THEN Throw(p, e2eLocalError(cli), l, o)
                 ELSE Return(p, Str(Trim(cli.out)), l, o)
  /\ UNCHANGED <<now, ticks, env, cacheEnv, helper, files, issued, lastWriter>>
  /\ UNCHANGED qvars

\* the token endpoint answers (or the transport fails): the rest of
\* fetchNewToken, then saveCachedToken and the return of getOAuthToken
FetchResponseFrom(p, responses) ==
  /\ pc[p] = "awaiting"
  /\ \E r \in responses, writeOk \in BOOLEAN :
       LET data == tokenData(r, issued, now)
           o == [obs[p] EXCEPT !.response = r, !.fetchNow = now,
                               !.bodyToken = data.access_token]
           path == cacheFilePath(helper[p], cacheEnv[p])
       IN IF fetchError(r) # NoError
            THEN /\ writeOk   \* nothing is written: one outcome
                 /\ Throw(p, fetchError(r), log[p], o)
                 /\ UNCHANGED <<files, issued, lastWriter>>
            ELSE /\ IF saveThrows(writeOk)
                      THEN Throw(p, Error("CacheError", "write"), log[p] \o <<"writeFile">>,
                                 [o EXCEPT !.saved = data, !.writeOk = writeOk])
                      ELSE Return(p, data.access_token, log[p] \o <<"writeFile">>,
                                  [o EXCEPT !.saved = data, !.writeOk = writeOk])
                 /\ files' = IF writeOk THEN [files EXCEPT ![path] = data] ELSE files
                 /\ lastWriter' = IF writeOk THEN [lastWriter EXCEPT ![path] = p]
                                  ELSE lastWriter
                 /\ issued' = IF r.hasToken THEN issued + 1 ELSE issued
  /\ UNCHANGED <<now, ticks, env, cacheEnv, helper, entry, calls>>
  /\ UNCHANGED qvars

\* the token endpoint answers in any of the ways it can
FetchResponse(p) == FetchResponseFrom(p, Responses)

\* time passes
Tick ==
  /\ ticks < MaxTicks
  /\ \E d \in TickDeltas : now' = now + d
  /\ ticks' = ticks + 1
  /\ UNCHANGED <<env, cacheEnv, helper, files, issued, pc, entry, calls, ret, err, log, obs,
                  lastWriter>>
  /\ UNCHANGED qvars

Next ==
  \/ \E p \in Procs : GetOAuthToken(p)
  \/ \E p \in Procs : GetToken(p)
  \/ \E p \in Procs : GetImsToken(p)
  \/ \E p \in Procs : FetchResponse(p)
  \/ Tick

Spec == Init /\ [][Next]_vars

(* --------------------------- makeQuery, actions ------------------------- *)
\* no credential provider call is made
ProviderOff ==
  /\ now = Now0
  /\ ticks = 0
  /\ env = [IMS_TOKEN |-> Undef, GITHUB_ACTIONS |-> Undef, CI |-> Undef,
            IMS_CLIENT_ID |-> Undef, IMS_CLIENT_SECRET |-> Undef]
  /\ helper = [p \in Procs |-> "utils"]
  /\ cacheEnv = [p \in Procs |-> Undef]
  /\ files = [f \in Paths |-> NoFile]
  /\ issued = 0
  /\ pc = [p \in Procs |-> "off"]
  /\ entry = [p \in Procs |-> "none"]
  /\ calls = [p \in Procs |-> 0]
  /\ ret = [p \in Procs |-> Undef]
  /\ err = [p \in Procs |-> NoError]
  /\ log = [p \in Procs |-> <<>>]
  /\ obs = [p \in Procs |-> NoObs]
  /\ lastWriter = [f \in Paths |-> 0]

\* one makeQuery call at a time, with any arguments
InitQuery ==
  /\ ProviderOff
  /\ apimEndpoint \in EndpointValues
  /\ suite = QueryCalls
  /\ server = Answers
  /\ qpc = [c \in Calls |-> IF c = 1 THEN "idle" ELSE "off"]
  /\ qargs = [c \in Calls |-> NoArgs]
  /\ qreq = [c \in Calls |-> 0]
  /\ wire = <<>>
  /\ qret = [c \in Calls |-> NoResult]
  /\ qerr = [c \in Calls |-> NoError]
  /\ qlog = [c \in Calls |-> <<>>]

\* mutant: only an unset variable counts as missing
endpointMissingUnsetOnly(endpoint) == endpoint = Undef

\* makeQuery: !APIM_ENDPOINT
endpointMissing(endpoint) == ~Truthy(endpoint)

\* mutant: the request of the call is looked up in a variable all calls share
ownRequestShared(c) == Len(wire)

\* the request whose promise call c awaits
ownRequest(c) == qreq[c]

\* makeQuery up to its await: the endpoint check, the headers, the fetch
MakeQuery(c) ==
  /\ qpc[c] = "idle"
  /\ \E a \in suite :
       /\ qargs' = [qargs EXCEPT ![c] = a]
       /\ IF endpointMissing(apimEndpoint)
            THEN /\ qpc' = [qpc EXCEPT ![c] = "threw"]
                 /\ qerr' = [qerr EXCEPT ![c] = Error("ConfigError", "APIM_ENDPOINT")]
                 /\ UNCHANGED <<qreq, wire, qlog>>
            ELSE /\ qpc' = [qpc EXCEPT ![c] = "awaiting"]
                 /\ wire' = Append(wire, Request(c, apimEndpoint, a))
                 /\ qreq' = [qreq EXCEPT ![c] = Len(wire) + 1]
                 /\ qlog' = [qlog EXCEPT ![c] = <<"fetch">>]
                 /\ UNCHANGED qerr
  /\ UNCHANGED <<apimEndpoint, suite, server, qret>>
  /\ UNCHANGED pvars

\* the server answers one of the requests it has received, or the
\* transport of that request fails
ServerAnswer ==
  /\ \E i \in 1 .. Len(wire), a \in server :
       /\ wire[i].answer = NoAnswer
       /\ wire' = [wire EXCEPT ![i].answer = a]
  /\ UNCHANGED <<apimEndpoint, suite, server, qpc, qargs, qreq, qret, qerr, qlog>>
  /\ UNCHANGED pvars

\* the promise of the call settles: the rest of makeQuery
QueryResponse(c) ==
  /\ qpc[c] = "awaiting"
  /\ wire[ownRequest(c)].answer # NoAnswer
  /\ LET a == wire[ownRequest(c)].answer
     IN /\ qlog' = [qlog EXCEPT ![c] = @ \o responseEvents(a)]
        /\ IF responseError(a) # NoError
             THEN /\ qpc' = [qpc EXCEPT ![c] = "threw"]
                  /\ qerr' = [qerr EXCEPT ![c] = responseError(a)]
                  /\ UNCHANGED qret
             ELSE /\ qpc' = [qpc EXCEPT ![c] = "returned"]
                  /\ qret' = [qret EXCEPT ![c] = [response |-> a, data |-> responseData(a.text)]]
                  /\ UNCHANGED qerr
  /\ UNCHANGED <<apimEndpoint, suite, server, qargs, qreq, wire>>
  /\ UNCHANGED pvars

NextQuery ==
  \/ \E c \in Calls : MakeQuery(c)
  \/ ServerAnswer
  \/ \E c \in Calls : QueryResponse(c)

SpecQuery == InitQuery /\ [][NextQuery]_vars

\* several makeQuery calls in flight together
InitQueryRace ==
  /\ ProviderOff
  /\ apimEndpoint = Str(<<"h">>)
  /\ suite = ConcurrentCalls
  /\ server = RateLimitedAnswers
  /\ qpc = [c \in Calls |-> "idle"]
  /\ qargs = [c \in Calls |-> NoArgs]
  /\ qreq = [c \in Calls |-> 0]
  /\ wire = <<>>
  /\ qret = [c \in Calls |-> NoResult]
  /\ qerr = [c \in Calls |-> NoError]
  /\ qlog = [c \in Calls |-> <<>>]

SpecQueryRace == InitQueryRace /\ [][NextQuery]_vars

(* ------------------- getOAuthToken, several processes ------------------- *)
\* fs.writeFileSync opens the file with flag 'w', which truncates it, and
\* then writes the text from offset 0; between two processes the two steps
\* interleave with the other's.  A file just truncated:
Truncated == [kind |-> "empty", access_token |-> Undef, expires_in |-> Undefined, expires_at |-> Undefined]

\* length of the text JSON.stringify gives for a token record, up to the
\* digits of its numbers: a member that is undefined is left out
textSize(content) ==
  IF content.kind \in {"absent", "empty"} THEN 0
  ELSE 1 + (IF content.access_token = Undef THEN 0 ELSE 1 + Len(content.access_token.val))
         + (IF content.expires_in = Undefined THEN 0 ELSE 1)

\* a write of the text of data at offset 0 of a file holding content: the
\* file holds data, or, when it was longer, data followed by the old tail,
\* which is not JSON
writeAtStart(content, data) ==
  IF textSize(content) > textSize(data) THEN [content EXCEPT !.kind = "torn"] ELSE data

\* the answers of the token endpoint during the race: the transport fails,
\* or a token comes back with or without expires_in
RaceResponses ==
  {Response("failed", FALSE, "invalid", FALSE, Undefined, Undef, FALSE),
   Response("answered", TRUE, "object", TRUE, Undefined, Undef, TRUE),
   Response("answered", TRUE, "object", TRUE, 3600, Undef, TRUE)}

\* the cache the race starts from: missing, expired, or too far ahead
RaceInitialCache ==
  {NoFile, Record(OldToken, 3600, Now0 - 1),
   Record(OldToken, 3600, Now0 + maxValidDuration + 1)}

\* CI processes of one partition, each about to make its last call, the
\* clock about to advance for the last time
InitRace ==
  /\ now = Now0
  /\ ticks = MaxTicks - 1
  /\ env = [IMS_TOKEN |-> Undef, GITHUB_ACTIONS |-> Set, CI |-> Set,
            IMS_CLIENT_ID |-> Set, IMS_CLIENT_SECRET |-> Set]
  /\ helper = [p \in Procs |-> "utils"]
  /\ cacheEnv = [p \in Procs |-> Undef]
  /\ \E c \in RaceInitialCache :
       files = [f \in Paths |-> IF f = cacheFilePath("utils", Undef) THEN c ELSE NoFile]
  /\ issued = 0
  /\ pc = [p \in Procs |-> "idle"]
  /\ entry = [p \in Procs |-> "none"]
  /\ calls = [p \in Procs |-> MaxCalls - 1]
  /\ ret = [p \in Procs |-> Undef]
  /\ err = [p \in Procs |-> NoError]
  /\ log = [p \in Procs |-> <<>>]
  /\ obs = [p \in Procs |-> NoObs]
  /\ lastWriter = [f \in Paths |-> 0]
  /\ QueryOff

\* the token endpoint answers: the rest of fetchNewToken, then
\* saveCachedToken up to the opening of the cache file
FetchResponseOpen(p) ==
  /\ pc[p] = "awaiting"
  /\ \E r \in RaceResponses, writeOk \in BOOLEAN :
       LET data == tokenData(r, issued, now)
           o == [obs[p] EXCEPT !.response = r, !.fetchNow = now,
                               !.bodyToken = data.access_token,
                               !.saved = data, !.writeOk = writeOk]
           path == cacheFilePath(helper[p], cacheEnv[p])
       IN IF fetchError(r) # NoError
            THEN /\ writeOk
                 /\ Throw(p, fetchError(r), log[p], [o EXCEPT !.saved = NoFile])
                 /\ UNCHANGED <<files, issued>>
          ELSE IF ~writeOk
            THEN /\ Return(p, data.access_token, log[p] \o <<"writeFile">>, o)
                 /\ issued' = issued + 1
                 /\ UNCHANGED files
          ELSE /\ pc' = [pc EXCEPT ![p] = "writing"]
               /\ obs' = [obs EXCEPT ![p] = o]
               /\ log' = [log EXCEPT ![p] = @ \o <<"writeFile">>]
               /\ files' = [files EXCEPT ![path] = Truncated]
               /\ issued' = issued + 1
               /\ UNCHANGED <<ret, err>>
  /\ UNCHANGED <<now, ticks, env, cacheEnv, helper, entry, calls, lastWriter>>
  /\ UNCHANGED qvars

\* the text reaches the file: the rest of saveCachedToken and the return of
\* getOAuthToken
WriteFile(p) ==
  /\ pc[p] = "writing"
  /\ LET path == cacheFilePath(helper[p], cacheEnv[p])
     IN /\ files' = [files EXCEPT ![path] = writeAtStart(@, obs[p].saved)]
        /\ lastWriter' = [lastWriter EXCEPT ![path] = p]
  /\ Return(p, obs[p].saved.access_token, log[p], obs[p])
  /\ UNCHANGED <<now, ticks, env, cacheEnv, helper, issued, entry, calls>>
  /\ UNCHANGED qvars

NextRace ==
  \/ \E p \in Procs : GetOAuthToken(p)
  \/ \E p \in Procs : FetchResponseOpen(p)
  \/ \E p \in Procs : WriteFile(p)
  \/ Tick

SpecRace == InitRace /\ [][NextRace]_vars

(* ------------------------ calls whose peer is silent -------------------- *)
\* the environments of a run: CI with client credentials, or a developer
\* machine
LiveEnvironments ==
  {[IMS_TOKEN |-> Undef, GITHUB_ACTIONS |-> Set, CI |-> Set,
    IMS_CLIENT_ID |-> Set, IMS_CLIENT_SECRET |-> Set],
   [IMS_TOKEN |-> Undef, GITHUB_ACTIONS |-> Undef, CI |-> Undef,
    IMS_CLIENT_ID |-> Undef, IMS_CLIENT_SECRET |-> Undef]}

\* one process about to make its last call of getToken, one makeQuery call
InitLive ==
  /\ now = Now0
  /\ ticks = 0
  /\ env \in LiveEnvironments
  /\ helper = [p \in Procs |-> "utils"]
  /\ cacheEnv = [p \in Procs |-> Undef]
  /\ files = [f \in Paths |-> NoFile]
  /\ issued = 0
  /\ pc = [p \in Procs |-> IF p = 1 THEN "idle" ELSE "off"]
  /\ entry = [p \in Procs |-> "none"]
  /\ calls = [p \in Procs |-> MaxCalls - 1]
  /\ ret = [p \in Procs |-> Undef]
  /\ err = [p \in Procs |-> NoError]
  /\ log = [p \in Procs |-> <<>>]
  /\ obs = [p \in Procs |-> NoObs]
  /\ lastWriter = [f \in Paths |-> 0]
  /\ apimEndpoint = Str(<<"h">>)
  /\ suite = ConcurrentCalls
  /\ server = RateLimitedAnswers
  /\ qpc = [c \in Calls |-> IF c = 1 THEN "idle" ELSE "off"]
  /\ qargs = [c \in Calls |-> NoArgs]
  /\ qreq = [c \in Calls |-> 0]
  /\ wire = <<>>
  /\ qret = [c \in Calls |-> NoResult]
  /\ qerr = [c \in Calls |-> NoError]
  /\ qlog = [c \in Calls |-> <<>>]

\* getToken: in CI it goes to getOAuthToken, otherwise getLocalToken is
\* entered and execSync starts the login command
GetTokenStart(p) ==
  /\ helper[p] = "utils"
  /\ Begin(p, "getToken")
  /\ IF isCI(env)
       THEN oauthStart(p, <<"detectCI">>)
       ELSE /\ pc' = [pc EXCEPT ![p] = "login"]
            /\ ret' = [ret EXCEPT ![p] = Undef]
            /\ err' = [err EXCEPT ![p] = NoError]
            /\ log' = [log EXCEPT ![p] = <<"detectCI">>]
            /\ obs' = [obs EXCEPT ![p] = NoObs]
  /\ UNCHANGED <<now, ticks, env, cacheEnv, helper, files, issued, lastWriter>>
  /\ UNCHANGED qvars

\* the login command exits: the rest of getLocalToken
LoginExit(p) ==
  /\ pc[p] = "login"
  /\ \E cli \in CliRuns : getLocalToken(p, log[p], cli)
  /\ UNCHANGED <<now, ticks, env, cacheEnv, helper, files, issued, entry, calls, lastWriter>>
  /\ UNCHANGED qvars

NextLive ==
  \/ \E p \in Procs : GetTokenStart(p)
  \/ \E p \in Procs : LoginExit(p)
  \/ \E p \in Procs : FetchResponse(p)
  \/ \E c \in Calls : MakeQuery(c)
  \/ ServerAnswer
  \/ \E c \in Calls : QueryResponse(c)
  \/ Tick

\* time passes, and the runtime runs the continuation of a promise that has
\* settled; the peers (the login command, the token endpoint, the query
\* endpoint) are under no obligation to answer
SpecLive ==
  /\ InitLive
  /\ [][NextLive]_vars
  /\ WF_vars(Tick)
  /\ \A c \in Calls : WF_vars(QueryResponse(c))

(* --------------------------- cache partitions --------------------------- *)
\* the values of CACHE_ENV of the helpers: unset, empty, a CI identifier
PartitionLabels == CacheEnvValues \cup {Str(<<>>)}

\* the cache files the run starts with
PartitionInitialCache == {NoFile, Record(OldToken, 3600, Now0 + Hour)}

\* CI processes, each with its own CACHE_ENV, each about to make its last call
InitPartition ==
  /\ now = Now0
  /\ ticks = 0
  /\ env = [IMS_TOKEN |-> Undef, GITHUB_ACTIONS |-> Set, CI |-> Set,
            IMS_CLIENT_ID |-> Set, IMS_CLIENT_SECRET |-> Set]
  /\ helper = [p \in Procs |-> "utils"]
  /\ cacheEnv \in [Procs -> PartitionLabels]
  /\ files \in [Paths -> PartitionInitialCache]
  /\ issued = 0
  /\ pc = [p \in Procs |-> "idle"]
  /\ entry = [p \in Procs |-> "none"]
  /\ calls = [p \in Procs |-> MaxCalls - 1]
  /\ ret = [p \in Procs |-> Undef]
  /\ err = [p \in Procs |-> NoError]
  /\ log = [p \in Procs |-> <<>>]
  /\ obs = [p \in Procs |-> NoObs]
  /\ lastWriter = [f \in Paths |-> 0]
  /\ QueryOff

\* the token endpoint answers with a token, or the transport fails
FetchTokenResponse(p) == FetchResponseFrom(p, RaceResponses)

NextPartition ==
  \/ \E p \in Procs : GetOAuthToken(p)
  \/ \E p \in Procs : FetchTokenResponse(p)

SpecPartition == InitPartition /\ [][NextPartition]_vars

(* ------------------------- lifetimes at the edges ----------------------- *)
\* the expires_in the issuer may report, around the two limits
BoundaryExpiresIn == {Undefined, 0, 1, 300, 301, 3600, 173100, 173101}
BoundaryResponses ==
  {Response("answered", TRUE, "object", TRUE, e, Undef, TRUE) : e \in BoundaryExpiresIn}

\* one CI process with client credentials and no usable cache, two calls
\* ahead of it
InitExpiry ==
  /\ now = Now0
  /\ ticks = 0
  /\ env = [IMS_TOKEN |-> Undef, GITHUB_ACTIONS |-> Set, CI |-> Set,
            IMS_CLIENT_ID |-> Set, IMS_CLIENT_SECRET |-> Set]
  /\ helper = [p \in Procs |-> "utils"]
  /\ cacheEnv = [p \in Procs |-> Undef]
  /\ \E c \in {NoFile, Garbage, Record(OldToken, 3600, Now0 - 1)} :
       files = [f \in Paths |-> IF f = cacheFilePath("utils", Undef) THEN c ELSE NoFile]
  /\ issued = 0
  /\ pc = [p \in Procs |-> IF p = 1 THEN "idle" ELSE "off"]
  /\ entry = [p \in Procs |-> "none"]
  /\ calls = [p \in Procs |-> MaxCalls - 2]
  /\ ret = [p \in Procs |-> Undef]
  /\ err = [p \in Procs |-> NoError]
  /\ log = [p \in Procs |-> <<>>]
  /\ obs = [p \in Procs |-> NoObs]
  /\ lastWriter = [f \in Paths |-> 0]
  /\ QueryOff

\* the token endpoint answers with a token of some lifetime
FetchBoundaryResponse(p) == FetchResponseFrom(p, BoundaryResponses)

NextExpiry ==
  \/ \E p \in Procs : GetOAuthToken(p)
  \/ \E p \in Procs : FetchBoundaryResponse(p)
  \/ Tick

SpecExpiry == InitExpiry /\ [][NextExpiry]_vars

(* ------------- the security suite's beforeAll, one helper --------------- *)
\* new ImsHelper() of utils/imsHelper.js, before the first call
InitSuite ==
  /\ Init
  /\ helper[1] = "utils"

\* premiumToken = await imsHelper.getToken(), inside try / catch
BeforeAllGetToken(p) ==
  /\ calls[p] = 0
  /\ GetToken(p)

\* if (IMS_CLIENT_ID && IMS_CLIENT_SECRET) freeTierToken = await
\* imsHelper.getOAuthToken(), after the first call has ended either way
BeforeAllGetOAuthToken(p) ==
  /\ calls[p] = 1
  /\ entry[p] = "getToken"
  /\ Truthy(env.IMS_CLIENT_ID)
  /\ Truthy(env.IMS_CLIENT_SECRET)
  /\ GetOAuthToken(p)

NextSuite ==
  \/ \E p \in Procs : BeforeAllGetToken(p)
  \/ \E p \in Procs : BeforeAllGetOAuthToken(p)
  \/ \E p \in Procs : FetchResponse(p)
  \/ Tick

SpecSuite == InitSuite /\ [][NextSuite]_vars

(* ------------------------------ properties ----------------------------- *)
Has(l, e) == \E i \in 1 .. Len(l) : l[i] = e
Count(l, e) == Cardinality({i \in 1 .. Len(l) : l[i] = e})
Done(p) == pc[p] \in {"returned", "threw"}
FortyEightHours == 172800000

\* validity of a record at time t, as the data model states it
ValidRecord(rec, t) ==
  /\ rec.kind = "record"
  /\ rec.expires_at # Undefined
  /\ t < rec.expires_at
  /\ rec.expires_at - t <= FortyEightHours

\* C1: in every ImsHelper variant, isTokenValid(record) at time now is true
\* iff the record exists, has expires_at, now < expires_at and
\* expires_at - now <= 48 hours.
C1_ValidityInEveryVariant ==
  \A p \in Procs :
    obs[p].validChecked =>
      (obs[p].validResult <=> ValidRecord(obs[p].loaded, obs[p].validAt))

\* C2: a parseable record in the cache file that is valid at call time is a
\* cache hit: getOAuthToken returns its access_token, sends no POST to the
\* token endpoint and does not write the cache file.
C2_CacheHitAvoidsNetwork ==
  \A p \in Procs :
    (Has(log[p], "existsSync") /\ ValidRecord(obs[p].file, obs[p].validAt)) =>
      /\ pc[p] = "returned"
      /\ ret[p] = obs[p].file.access_token
      /\ ~Has(log[p], "post")
      /\ ~Has(log[p], "writeFile")
      /\ files[cacheFilePath(helper[p], cacheEnv[p])] = obs[p].file

C2_Witness ==
  \E p \in Procs :
    /\ entry[p] = "getOAuthToken"
    /\ pc[p] = "returned"
    /\ ValidRecord(obs[p].file, obs[p].validAt)
    /\ ret[p] = OldToken
    /\ obs[p].validAt > Now0

\* the call of p went through getOAuthToken
OAuthPath(p) == Has(log[p], "existsSync")
\* the call of p found no cache file
NoCacheFile(p) == OAuthPath(p) /\ obs[p].file.kind = "absent"
\* the call of p got a success body (a JSON object) from the issuer
SuccessBody(p) ==
  /\ obs[p].response.net = "answered"
  /\ obs[p].response.ok
  /\ obs[p].response.json = "object"
CredentialsConfigured == env.IMS_CLIENT_ID.val # <<>> /\ env.IMS_CLIENT_SECRET.val # <<>>

\* C3 as stated: with no cache file getOAuthToken sends exactly one POST and,
\* on a success body {access_token, expires_in}, overwrites the cache file
\* with a record whose expires_at is the fetch-time now + (expires_in - 300)
\* * 1000, then returns access_token; every persisted record has expires_at.
C3_Original ==
  \A p \in Procs :
    /\ (NoCacheFile(p) /\ Done(p)) => Count(log[p], "post") = 1
    /\ (NoCacheFile(p) /\ Done(p) /\ SuccessBody(p) /\ obs[p].response.hasToken
          /\ obs[p].response.expires_in # Undefined) =>
         /\ pc[p] = "returned"
         /\ ret[p] = obs[p].bodyToken
         /\ files[cacheFilePath(helper[p], cacheEnv[p])].expires_at
              = obs[p].fetchNow + (obs[p].response.expires_in - 300) * 1000
    /\ obs[p].saved.kind = "record" => obs[p].saved.expires_at # Undefined

\* C3 amended: with no cache file and client id and secret configured,
\* getOAuthToken sends exactly one POST; on a success body it hands
\* saveCachedToken a record with the body's access_token and expires_in and
\* expires_at = fetch-time now + (E - 300) * 1000, where E is expires_in, or
\* 86400 when expires_in is absent or 0; that record replaces the cache file
\* when the write succeeds, and access_token is returned.  Every persisted
\* record has expires_at set.
C3_CacheMissFetchesAndPersists ==
  \A p \in Procs :
    /\ (NoCacheFile(p) /\ CredentialsConfigured) =>
         /\ Count(log[p], "post") = 1
         /\ Done(p) /\ SuccessBody(p) =>
              LET r == obs[p].response
                  E == IF r.expires_in = Undefined \/ r.expires_in = 0
                         THEN 86400 ELSE r.expires_in
              IN /\ pc[p] = "returned"
                 /\ ret[p] = obs[p].bodyToken
                 /\ obs[p].saved =
                      Record(obs[p].bodyToken, r.expires_in, obs[p].fetchNow + (E - 300) * 1000)
                 /\ Count(log[p], "writeFile") = 1
                 /\ obs[p].writeOk =>
                      files[cacheFilePath(helper[p], cacheEnv[p])] = obs[p].saved
    /\ obs[p].saved.kind = "record" => obs[p].saved.expires_at # Undefined

C3_Witness ==
  \E p \in Procs :
    /\ NoCacheFile(p)
    /\ pc[p] = "returned"
    /\ obs[p].response.expires_in = 3600
    /\ obs[p].writeOk
    /\ ret[p] = IssuedToken(1)
    /\ obs[p].fetchNow > Now0
    /\ files[cacheFilePath(helper[p], cacheEnv[p])].expires_at = obs[p].fetchNow + 3300000

OverridePresent == env.IMS_TOKEN.kind = "string" /\ env.IMS_TOKEN.val # <<>>

\* C4: whenever the override IMS_TOKEN is present, ImsHelper.getToken and
\* getImsToken return it at once: no CI detection, no cache read, no POST,
\* no login command.
C4_OverrideFirst ==
  \A p \in Procs :
    (entry[p] \in {"getToken", "getImsToken"} /\ OverridePresent) =>
      /\ pc[p] = "returned"
      /\ ret[p] = env.IMS_TOKEN
      /\ log[p] = <<>>

CIIndicatorSet ==
  \/ (env.GITHUB_ACTIONS.kind = "string" /\ env.GITHUB_ACTIONS.val # <<>>)
  \/ (env.CI.kind = "string" /\ env.CI.val # <<>>)

\* C5: with no override, getToken takes the cache-then-fetch OAuth path iff
\* GITHUB_ACTIONS or CI is set and the local login path otherwise; the
\* automated path never runs the login command, the local path never reads
\* or writes the cache file and never calls the token endpoint.
C5_PathByEnvironment ==
  \A p \in Procs :
    (entry[p] = "getToken" /\ ~OverridePresent) =>
      /\ OAuthPath(p) <=> CIIndicatorSet
      /\ Has(log[p], "login") <=> ~CIIndicatorSet
      /\ CIIndicatorSet => ~Has(log[p], "login")
      /\ ~CIIndicatorSet =>
           \A e \in {"existsSync", "readFile", "writeFile", "post"} : ~Has(log[p], e)

C5_Witness ==
  \E p \in Procs :
    /\ entry[p] = "getToken"
    /\ ~OverridePresent
    /\ env.GITHUB_ACTIONS = Undef
    /\ env.CI = Set
    /\ pc[p] = "returned"
    /\ Has(log[p], "post")

AllWhitespace(s) == \A i \in 1 .. Len(s) : s[i] \in Whitespace
\* t is s without its leading and trailing whitespace
IsTrimOf(t, s) ==
  /\ t # <<>>
  /\ t[1] \notin Whitespace
  /\ t[Len(t)] \notin Whitespace
  /\ \E i \in 1 .. Len(s) :
       /\ SubSeq(s, i, i + Len(t) - 1) = t
       /\ AllWhitespace(SubSeq(s, 1, i - 1))
       /\ AllWhitespace(SubSeq(s, i + Len(t), Len(s)))

\* C6: the local path (getLocalToken and the local branch of getImsToken)
\* fails with a login error when the command errors or prints only
\* whitespace, otherwise returns the trimmed output; never an empty token.
C6_LocalLogin ==
  \A p \in Procs :
    (Has(log[p], "login") /\ Done(p)) =>
      IF ~obs[p].cli.ok \/ AllWhitespace(obs[p].cli.out)
        THEN pc[p] = "threw" /\ err[p].kind = "LoginError"
        ELSE /\ pc[p] = "returned"
             /\ ret[p].kind = "string"
             /\ IsTrimOf(ret[p].val, obs[p].cli.out)

\* C7: when a fetch is needed and the client id or secret is not configured,
\* getOAuthToken fails with a configuration error, sends no POST and does
\* not write the cache file.
C7_ConfigErrorBeforeRequest ==
  \A p \in Procs :
    (OAuthPath(p) /\ ~(obs[p].validChecked /\ obs[p].validResult)
       /\ ~CredentialsConfigured) =>
      /\ pc[p] = "threw"
      /\ err[p].kind = "ConfigError"
      /\ ~Has(log[p], "post")
      /\ ~Has(log[p], "writeFile")
      /\ files[cacheFilePath(helper[p], cacheEnv[p])] = obs[p].file

C7_Witness ==
  \E p \in Procs :
    /\ OAuthPath(p)
    /\ obs[p].validChecked /\ ~obs[p].validResult
    /\ env.IMS_CLIENT_ID = Set
    /\ env.IMS_CLIENT_SECRET = Str(<<>>)
    /\ err[p].kind = "ConfigError"

\* C8: on a status outside the success range getOAuthToken fails with an
\* auth-fetch error carrying error_description when the body has one and
\* the raw body otherwise, for any body; nothing is returned or written.
C8_AuthFetchError ==
  \A p \in Procs :
    (Done(p) /\ obs[p].response.net = "answered" /\ ~obs[p].response.ok) =>
      /\ pc[p] = "threw"
      /\ ret[p] = Undef
      /\ err[p].kind = "AuthFetchError"
      /\ err[p].detail =
           IF obs[p].response.json = "object"
                /\ obs[p].response.error_description.kind = "string"
                /\ obs[p].response.error_description.val # <<>>
             THEN "error_description" ELSE "raw_body"
      /\ ~Has(log[p], "writeFile")

\* C9: cache I/O failures are never fatal to getOAuthToken: an unreadable or
\* unparseable cache file is a cache miss (fetch, or configuration error
\* without credentials), and a failed write after a successful fetch still
\* returns the fetched access_token.
C9_CacheFailuresNotFatal ==
  \A p \in Procs :
    /\ (OAuthPath(p) /\ obs[p].file.kind \in {"unreadable", "garbage"}) =>
         /\ obs[p].loaded = Null
         /\ CredentialsConfigured => Count(log[p], "post") = 1
         /\ ~CredentialsConfigured => pc[p] = "threw" /\ err[p].kind = "ConfigError"
    /\ (Done(p) /\ SuccessBody(p) /\ ~obs[p].writeOk) =>
         /\ pc[p] = "returned"
         /\ ret[p] = obs[p].bodyToken
    /\ err[p].kind # "CacheError"

C9_Witness ==
  \E p \in Procs :
    /\ OAuthPath(p)
    /\ obs[p].file.kind = "garbage"
    /\ SuccessBody(p)
    /\ ~obs[p].writeOk
    /\ pc[p] = "returned"
    /\ ret[p] = IssuedToken(1)
    /\ files[cacheFilePath(helper[p], cacheEnv[p])] = Garbage

\* C10: whenever getToken / getOAuthToken completes without error it returns
\* a string token: the cached record's access_token on a hit, the issuer's
\* after a fetch; never undefined.
C10_ReturnsStringToken ==
  \A p \in Procs :
    (pc[p] = "returned" /\ entry[p] \in {"getToken", "getOAuthToken"}) =>
      /\ ret[p].kind = "string"
      /\ OAuthPath(p) =>
           ret[p] = IF Has(log[p], "post") THEN obs[p].bodyToken
                    ELSE obs[p].file.access_token

(* ------------------------ properties of makeQuery ----------------------- *)
\* an option the caller gave a value other than null
Given(v) == v # Undef /\ v # NullV
\* call c has passed a request to fetch
Sent(c) == qreq[c] # 0
\* the request call c passed to fetch
RequestOf(c) == wire[qreq[c]]
\* the requests on the wire that call c sent
RequestsFrom(c) == {i \in 1 .. Len(wire) : wire[i].from = c}
QDone(c) == qpc[c] \in {"returned", "threw"}
\* call c ended after the server answered its request
Exchanged(c) == Sent(c) /\ QDone(c) /\ RequestOf(c).answer.net = "answered"

\* C11: in makeQuery a non-null authHeader is sent verbatim as the
\* Authorization header, even when a token is given too; otherwise a non-null
\* token is sent as 'Bearer ' followed by the token.
C11_AuthorizationPrecedence ==
  \A c \in Calls :
    Sent(c) =>
      LET o == qargs[c].options
      IN /\ Given(o.authHeader) => RequestOf(c).headers["Authorization"] = o.authHeader
         /\ (~Given(o.authHeader) /\ Given(o.token)) =>
              RequestOf(c).headers["Authorization"] = Str(BearerPrefix \o o.token.val)

C11_Witness ==
  \E c \in Calls :
    /\ qpc[c] = "returned"
    /\ qargs[c].options.token = Str(<<"t">>)
    /\ qargs[c].options.authHeader = Str(<<"X">>)
    /\ RequestOf(c).headers["Authorization"] = Str(<<"X">>)

\* C12 as stated: a makeQuery call with no token and no authHeader sends a
\* request with no Authorization header, whatever the other options,
\* customHeaders included.
C12_Original ==
  \A c \in Calls :
    (Sent(c) /\ ~Given(qargs[c].options.token) /\ ~Given(qargs[c].options.authHeader)) =>
      RequestOf(c).headers["Authorization"] = Undef

\* C12 amended: a makeQuery call with no token and no authHeader sends a
\* request whose Authorization header is the one customHeaders carries: none
\* at all (absent, not an empty string) when customHeaders has no
\* Authorization entry, and that entry's value when it has one.
C12_MissingAuth ==
  \A c \in Calls :
    (Sent(c) /\ ~Given(qargs[c].options.token) /\ ~Given(qargs[c].options.authHeader)) =>
      /\ RequestOf(c).headers["Authorization"] = qargs[c].options.customHeaders["Authorization"]
      /\ qargs[c].options.customHeaders["Authorization"] = Undef =>
           /\ RequestOf(c).headers["Authorization"] = Undef
           /\ RequestOf(c).headers["Authorization"] # Str(<<>>)

C12_Witness ==
  \E c \in Calls :
    /\ qpc[c] = "returned"
    /\ qargs[c].options.token = NullV
    /\ qargs[c].options.authHeader = Undef
    /\ qargs[c].options.customHeaders["X-Request-Id"] # Undef
    /\ RequestOf(c).headers["X-Request-Id"] # Undef
    /\ RequestOf(c).headers["Authorization"] = Undef

\* C13: makeQuery called with authHeader '' sends an Authorization header
\* whose value is the empty string: the header is present, and the request
\* differs from the one the same call sends with no token and no override.
C13_EmptyOverrideIsPresent ==
  \A c \in Calls :
    (Sent(c) /\ qargs[c].options.authHeader = Str(<<>>)) =>
      /\ RequestOf(c).headers["Authorization"] = Str(<<>>)
      /\ RequestOf(c).headers["Authorization"] # Undef
      /\ RequestOf(c).headers #
           objectSpread([NoHeaders EXCEPT !["Content-Type"] = ApplicationJson],
                        qargs[c].options.customHeaders)

C13_Witness ==
  \E c \in Calls :
    /\ QDone(c)
    /\ Sent(c)
    /\ qargs[c].options.authHeader = Str(<<>>)
    /\ qargs[c].options.token = Undef
    /\ qargs[c].options.customHeaders = NoHeaders
    /\ RequestOf(c).headers["Authorization"] = Str(<<>>)

\* C14: whatever the HTTP status, a response body that is empty or only
\* white space is not handed to the JSON parser and does not make makeQuery
\* throw: it returns data {error: 'empty_response', message: 'Server returned
\* empty response'} together with the raw response.
C14_EmptyBodyNormalised ==
  \A c \in Calls :
    (Exchanged(c) /\ AllWhitespace(RequestOf(c).answer.text)) =>
      /\ qpc[c] = "returned"
      /\ ~Has(qlog[c], "JSON.parse")
      /\ qret[c].data.error = "empty_response"
      /\ qret[c].data.message = "Server returned empty response"
      /\ qret[c].response = RequestOf(c).answer

C14_Witness ==
  \E c \in Calls :
    /\ Exchanged(c)
    /\ RequestOf(c).answer.status = 401
    /\ RequestOf(c).answer.text = <<" ", "\n">>
    /\ qret[c].data = emptyResponseData

\* C15: whatever the HTTP status, a response body that is not empty after
\* trimming and is not valid JSON makes the makeQuery call reject with an
\* invalid-response error that wraps the parser's message; no {response,
\* data} pair is returned.
C15_MalformedBodyRejects ==
  \A c \in Calls :
    (Exchanged(c) /\ ~AllWhitespace(RequestOf(c).answer.text)
       /\ ~isJson(RequestOf(c).answer.text)) =>
      /\ qpc[c] = "threw"
      /\ qerr[c] = Error("InvalidResponseError", "parser_message")
      /\ Has(qlog[c], "JSON.parse")
      /\ qret[c] = NoResult

C15_Witness ==
  \E c \in Calls :
    /\ Exchanged(c)
    /\ RequestOf(c).answer.status = 200
    /\ RequestOf(c).answer.text = <<"<", "h", ">">>
    /\ qpc[c] = "threw"

\* C16: HTTP error statuses are data: a makeQuery call that sent its request
\* throws only when the transport failed or the body could not be parsed,
\* never because of the status; otherwise it returns a {response, data} pair
\* whose response.status is the status the server sent.
C16_StatusIsData ==
  \A c \in Calls :
    /\ (Sent(c) /\ qpc[c] = "threw") =>
         /\ qerr[c].kind \in {"TransportError", "InvalidResponseError"}
         /\ qerr[c].kind = "TransportError" <=> RequestOf(c).answer.net = "failed"
         /\ qerr[c].kind = "InvalidResponseError" =>
              /\ ~AllWhitespace(RequestOf(c).answer.text)
              /\ ~isJson(RequestOf(c).answer.text)
    /\ (Exchanged(c) /\ (AllWhitespace(RequestOf(c).answer.text)
                           \/ isJson(RequestOf(c).answer.text))) =>
         /\ qpc[c] = "returned"
         /\ qret[c].response.status = RequestOf(c).answer.status

C16_Witness ==
  \E c \in Calls :
    /\ qpc[c] = "returned"
    /\ qret[c].response.status = 429
    /\ qret[c].data.kind = "parsed"

\* C17: a makeQuery call that passes the endpoint check issues exactly one
\* POST to {APIM_ENDPOINT}/api/query with the JSON body {query, count,
\* indexName} (count 3 when not supplied, an empty query sent as is), with or
\* without an Authorization header, and never a second request, whatever the
\* response; a call that fails the endpoint check issues none.
C17_ExactlyOnePost ==
  \A c \in Calls :
    /\ (qpc[c] \in {"awaiting", "returned", "threw"} /\ Truthy(apimEndpoint)) =>
         /\ Cardinality(RequestsFrom(c)) = 1
         /\ RequestsFrom(c) = {qreq[c]}
         /\ RequestOf(c).method = "POST"
         /\ RequestOf(c).url = apimEndpoint.val \o QueryPath
         /\ RequestOf(c).body.query = qargs[c].query
         /\ RequestOf(c).body.indexName = qargs[c].options.indexName
         /\ RequestOf(c).body.count =
              (IF qargs[c].options.count = Undefined THEN 3 ELSE qargs[c].options.count)
    /\ ~Truthy(apimEndpoint) => RequestsFrom(c) = {}

C17_Witness ==
  \E c \in Calls :
    /\ qpc[c] = "threw"
    /\ Sent(c)
    /\ qargs[c].query = Str(<<>>)
    /\ qargs[c].options.count = Undefined
    /\ RequestOf(c).body.count = 3
    /\ RequestOf(c).headers["Authorization"] = Undef
    /\ Len(wire) = 1

\* C18: makeQuery is safe under concurrent invocation: in every interleaving
\* of the calls in flight each call sends the headers and the body built
\* from its own arguments and gets the response to its own request; no
\* option of one call shows in the request of another.
C18_ConcurrentCallsIsolated ==
  \A c \in Calls :
    Sent(c) =>
      /\ RequestOf(c).from = c
      /\ RequestsFrom(c) = {qreq[c]}
      /\ RequestOf(c).headers = makeHeaders(qargs[c].options)
      /\ RequestOf(c).body = requestBody(qargs[c].query, qargs[c].options)
      /\ qpc[c] = "returned" =>
           /\ qret[c].response = RequestOf(c).answer
           /\ qret[c].data = responseData(RequestOf(c).answer.text)
      /\ qpc[c] = "threw" => qerr[c] = responseError(RequestOf(c).answer)

C18_Witness ==
  \E c, d \in Calls :
    /\ qreq[c] < qreq[d]
    /\ qpc[c] = "returned"
    /\ qpc[d] = "returned"
    /\ qargs[c] # qargs[d]
    /\ RequestOf(c).headers # RequestOf(d).headers
    /\ RequestOf(c).body # RequestOf(d).body
    /\ qret[c].response.status = 429
    /\ qret[d].response.status = 200

(* -------------------- properties of the refresh race -------------------- *)
\* C19: several processes of one partition racing through getOAuthToken on
\* an invalid or missing cache: each process that returns, returns the
\* access_token of its own successful fetch or of a valid cached record, and
\* once all have finished the cache file holds exactly the record written by
\* the last writer.
C19_LastWriterWins ==
  /\ \A p \in Procs :
       pc[p] = "returned" =>
         \/ SuccessBody(p) /\ ret[p] = obs[p].bodyToken
         \/ /\ obs[p].response.net = "none"
            /\ ValidRecord(obs[p].file, obs[p].validAt)
            /\ ret[p] = obs[p].file.access_token
  /\ (\A p \in Procs : Done(p)) =>
       \A f \in Paths :
         lastWriter[f] # 0 => files[f] = obs[lastWriter[f]].saved

(* ------------------------ properties of timeouts ------------------------ *)
\* process p waits for the login command or for the token endpoint
Waiting(p) == pc[p] \in {"login", "awaiting"}

\* C20: every network call (the login subprocess, the OAuth token fetch, the
\* query POST) is bounded by a timeout: a call that waits for its peer
\* eventually completes, also when the peer never answers.
C20_CallsAreBounded ==
  /\ \A p \in Procs : Waiting(p) ~> Done(p)
  /\ \A c \in Calls : (qpc[c] = "awaiting") ~> QDone(c)

\* C21: when APIM_ENDPOINT is not configured (unset or empty) makeQuery
\* fails with a configuration error before it builds or sends a request: no
\* HTTP call is made.
C21_NoEndpointNoRequest ==
  \A c \in Calls :
    (qpc[c] \notin {"idle", "off"} /\ (apimEndpoint = Undef \/ apimEndpoint = Str(<<>>))) =>
      /\ qpc[c] = "threw"
      /\ qerr[c] = Error("ConfigError", "APIM_ENDPOINT")
      /\ ~Sent(c)
      /\ qlog[c] = <<>>
      /\ wire = <<>>

C21_Witness ==
  \E c \in Calls :
    /\ apimEndpoint = Str(<<>>)
    /\ qpc[c] = "threw"
    /\ qargs[c].options.token = Str(<<"t">>)
    /\ wire = <<>>

\* the index name the documentation of makeQuery gives as the default
DocumentedIndexName ==
  Str(<<"c", "o", "m", "m", "e", "r", "c", "e", "-", "e", "x", "t", "e",
        "n", "s", "i", "b", "i", "l", "i", "t", "y", "-", "d", "o", "c", "s">>)

\* C26: when the caller supplies no indexName, the request body makeQuery
\* sends carries indexName = 'commerce-extensibility-docs'.
C26_IndexNameDefault ==
  \A c \in Calls :
    (Sent(c) /\ qargs[c].options.indexName = Undef) =>
      RequestOf(c).body.indexName = DocumentedIndexName

(* ------------------- properties of the cache file, II ------------------- *)
\* the cache file of the helper of process p
CacheFileOf(p) == cacheFilePath(helper[p], cacheEnv[p])

C23_InvalidStaysDiscarded ==
  [][\A p \in Procs :
       (/\ obs[p].validChecked
        /\ ~obs[p].validResult
        /\ files[CacheFileOf(p)] = obs[p].file
        /\ calls'[p] = calls[p] + 1
        /\ entry'[p] = "getOAuthToken") =>
         ~(/\ pc'[p] = "returned"
           /\ obs'[p].validResult
           /\ ret'[p] = obs[p].file.access_token)
    ]_vars

\* C25: within one process, once getOAuthToken has successfully fetched a
\* token the provider memoizes it: the next getOAuthToken call of that
\* process returns it without reading the cache file again.
C25_MemoizedAfterFetch ==
  [][\A p \in Procs :
       (/\ entry[p] = "getOAuthToken"
        /\ pc[p] = "returned"
        /\ SuccessBody(p)
        /\ obs[p].response.hasToken
        /\ calls'[p] = calls[p] + 1
        /\ entry'[p] = "getOAuthToken") =>
         /\ ~Has(log'[p], "existsSync")
         /\ ~Has(log'[p], "readFile")
         /\ pc'[p] = "returned"
         /\ ret'[p] = ret[p]
    ]_vars

(* --------------------- properties of cache partitions ------------------- *)
\* the partition label of the helper of process p: CACHE_ENV, 'local' when
\* it is unset (an empty value counts as unset)
LabelOf(p) ==
  IF cacheEnv[p] = Undef \/ cacheEnv[p] = Str(<<>>)
    THEN <<"l", "o", "c", "a", "l">> ELSE cacheEnv[p].val
\* the file .ims-token-<label>-cache.json
LabelFile(label) == <<".ims-token-">> \o label \o <<"-cache.json">>

\* C24: a helper constructed with partition label p reads and writes only
\* the file .ims-token-<p>-cache.json: a getOAuthToken call loads that file,
\* a cache hit returns the token of that file, a save changes that file and
\* no other, so calls under one label never return or overwrite a record
\* persisted under another label.
C24_PartitionsAreSeparate ==
  [][/\ \A p \in Procs :
          LET f == LabelFile(LabelOf(p))
          IN /\ f \in Paths
             /\ calls'[p] = calls[p] + 1 =>
                  /\ obs'[p].file = files[f]
                  /\ (pc'[p] = "returned" => ret'[p] = files[f].access_token)
             /\ (pc[p] = "awaiting" /\ pc'[p] # "awaiting") =>
                  /\ \A g \in Paths \ {f} : files'[g] = files[g]
                  /\ (pc'[p] = "returned" /\ obs'[p].writeOk) => files'[f] = obs'[p].saved
     /\ \A g \in Paths :
          files'[g] # files[g] =>
            \E p \in Procs : pc[p] = "awaiting" /\ pc'[p] = "returned" /\ g = LabelFile(LabelOf(p))
    ]_vars

C24_Witness ==
  \E p, q \in Procs :
    /\ LabelOf(p) # LabelOf(q)
    /\ pc[p] = "returned" /\ obs[p].writeOk
    /\ files[LabelFile(LabelOf(p))].access_token = IssuedToken(1)
    /\ pc[q] = "returned" /\ obs[q].validResult
    /\ ret[q] = OldToken
    /\ files[LabelFile(LabelOf(q))].access_token = OldToken

(* ----------------------- properties of lifetimes ------------------------ *)
\* the lifetime the code works with: an absent or zero expires_in counts as 86,400
EffectiveExpiresIn(ein) == IF ein = Undefined \/ ein = 0 THEN 86400 ELSE ein
\* 300 < expires_in <= 173,100
UsableLifetime(ein) == 300 < EffectiveExpiresIn(ein) /\ EffectiveExpiresIn(ein) <= 173100
\* the call of p loaded the record the first fetch of the run persisted, at
\* the very time of that fetch
ReadBackAtOnce(p) ==
  /\ obs[p].validChecked
  /\ obs[p].response.net = "none"
  /\ obs[p].file.access_token = IssuedToken(1)
  /\ now = Now0

\* C27: the record persisted by a successful fetch is accepted by
\* isTokenValid immediately after it is written iff 300 < expires_in <=
\* 173,100 (absent or zero counting as 86,400); outside that range it is not
\* usable at write time and an immediately following getOAuthToken call
\* performs another fetch.
C27_UsableLifetimes ==
  \A p \in Procs :
    ReadBackAtOnce(p) =>
      /\ obs[p].validResult <=> UsableLifetime(obs[p].file.expires_in)
      /\ UsableLifetime(obs[p].file.expires_in) =>
           /\ pc[p] = "returned"
           /\ ret[p] = IssuedToken(1)
           /\ ~Has(log[p], "post")
      /\ ~UsableLifetime(obs[p].file.expires_in) => Count(log[p], "post") = 1

C27_Witness ==
  \E p \in Procs :
    /\ ReadBackAtOnce(p)
    /\ obs[p].file.expires_in = 173100
    /\ obs[p].validResult
    /\ pc[p] = "returned"
    /\ files[CacheFileOf(p)].expires_in = 173100

\* the step is a cache hit of p on the record its previous call persisted
\* from a response that reported expires_in
HitOnOwnRecord(p) ==
  /\ calls'[p] = calls[p] + 1
  /\ pc'[p] = "returned"
  /\ ~Has(log'[p], "post")
  /\ obs[p].saved.kind = "record"
  /\ obs'[p].file = obs[p].saved
  /\ obs[p].response.expires_in # Undefined
\* what is left, at the return of the hit, of the lifetime the issuer gave
RealTimeLeft(p) == (obs[p].fetchNow + obs[p].response.expires_in * 1000) - now'

\* C28 as stated: every access_token getOAuthToken returns from the cache,
\* on a record it persisted itself from a response that reported expires_in,
\* has more than 300 seconds left before the issuer's expiry (fetch time +
\* expires_in) when it is returned.
C28_Original ==
  [][\A p \in Procs : HitOnOwnRecord(p) => RealTimeLeft(p) > 300000]_vars

\* C28 amended: the same, for a response that reported an expires_in other
\* than 0; a reported 0 is replaced by 86,400 and the token is served from
\* the cache for up to 86,100 seconds past its expiry.
C28_SkewMargin ==
  [][\A p \in Procs :
       HitOnOwnRecord(p) =>
         /\ obs[p].response.expires_in # 0 => RealTimeLeft(p) > 300000
         /\ obs[p].response.expires_in = 0 =>
              /\ RealTimeLeft(p) <= 0
              /\ RealTimeLeft(p) > 0 - 86100 * 1000
    ]_vars

C28_Witness ==
  \E p \in Procs :
    /\ pc[p] = "returned"
    /\ obs[p].validResult
    /\ obs[p].response.net = "none"
    /\ ret[p] = IssuedToken(1)
    /\ obs[p].file.expires_in = 3600
    /\ obs[p].file.expires_at = Now0 + 3300000
    /\ obs[p].validAt = Now0 + 1

(* ------------------ properties of credentials and reuse ----------------- *)
\* C29: missing client credentials produce an error only when a fetch is
\* needed: with a valid record in the cache getOAuthToken returns its
\* access_token without error even when the client id and secret are not
\* configured; the configuration error appears only on a cache miss or an
\* invalid record.
C29_ConfigErrorOnlyOnFetch ==
  \A p \in Procs :
    /\ (OAuthPath(p) /\ ValidRecord(obs[p].file, obs[p].validAt)) =>
         /\ pc[p] = "returned"
         /\ err[p] = NoError
         /\ ret[p] = obs[p].file.access_token
    /\ (OAuthPath(p) /\ err[p].kind = "ConfigError") =>
         /\ ~ValidRecord(obs[p].file, obs[p].validAt)
         /\ ~CredentialsConfigured
         /\ ~Has(log[p], "post")

C29_Witness ==
  \E p \in Procs :
    /\ entry[p] = "getOAuthToken"
    /\ env.IMS_CLIENT_ID = Str(<<>>)
    /\ env.IMS_CLIENT_SECRET = Str(<<>>)
    /\ ValidRecord(obs[p].file, obs[p].validAt)
    /\ pc[p] = "returned"
    /\ ret[p] = OldToken
    /\ calls[p] = 2

\* C30: in a CI environment getToken() followed by getOAuthToken() on the
\* same helper returns the same token both times with at most one POST in
\* total, provided the fetch of the first call succeeded, its cache write
\* succeeded and the persisted record is valid at the second call.
C30_SecondCallReusesToken ==
  [][\A p \in Procs :
       (/\ CIIndicatorSet
        /\ entry[p] = "getToken"
        /\ pc[p] = "returned"
        /\ SuccessBody(p)
        /\ obs[p].writeOk
        /\ ValidRecord(obs[p].saved, now)
        /\ calls'[p] = calls[p] + 1
        /\ entry'[p] = "getOAuthToken") =>
         /\ pc'[p] = "returned"
         /\ ret'[p] = ret[p]
         /\ Count(log[p], "post") + Count(log'[p], "post") <= 1
         /\ files' = files
    ]_vars

C30_Witness ==
  \E p \in Procs :
    /\ CIIndicatorSet
    /\ calls[p] = 2
    /\ entry[p] = "getOAuthToken"
    /\ pc[p] = "returned"
    /\ ret[p] = IssuedToken(1)
    /\ obs[p].file.access_token = IssuedToken(1)
    /\ obs[p].validAt > obs[p].file.expires_at - 82800000

====
